---- MODULE Spec2Model ----
(***************************************************************************)
(* State-machine model of the FlipFlag SDK manager (src/src/provider.ts).  *)
(*                                                                         *)
(* One manager object is modelled.  Its fields are the variables           *)
(* inited, interval, options, featuresTimes, featuresFlags and             *)
(* featuresUsage.  The environment is modelled by                          *)
(*   timers : the interval timers that are still active in the runtime,    *)
(*   inits  : the init() calls and the await each one is suspended at,     *)
(*   polls  : the getFeaturesFlags() calls issued by timer ticks that are  *)
(*            still suspended, in issue order,                             *)
(*   now    : the wall clock read by new Date(),                           *)
(*   last   : the operation that ran in the last step, what it returned    *)
(*            and the requests it issued (history, read by the properties),*)
(*   destroyed : destroy() has been called and init() has not been called  *)
(*            since (history),                                             *)
(*   reinit : the init() calls in flight that were made on a destroyed     *)
(*            manager (history).                                           *)
(* JavaScript runs one callback at a time, so every action is one          *)
(* synchronous run of the code from one suspension point to the next.      *)
(* A await on a promise that settles without input/output (the await of    *)
(* syncFeaturesTimes in init) is folded into the step that reaches it.     *)
(***************************************************************************)
EXTENDS Integers, Sequences, FiniteSets, TLC

\* ------------------------------------------------------------------ bounds
MaxInit  == 2      \* init() calls made on the manager
MaxPolls == 2      \* tick flag fetches in flight at the same time
MaxNow   == 1      \* clock readings 0..MaxNow

\* ------------------------------------------------------------ value spaces
Names == {"a", "b"}                    \* feature names the application asks about

EmptyMap == [n \in {} |-> TRUE]        \* the object {}

\* strings that are transformed are sequences of characters
DefaultApiUrl == <<"d">>               \* "https://api.flipflag.dev"

\* IManagerOptions: publicKey is required, the other keys may be left out.
\* The option objects the manager is constructed with: every key is given
\* in one of them and left out of another.
IManagerOptions ==
  { [publicKey |-> "pub", privateKey |-> "priv", apiUrl |-> <<"u", "/", "/">>],
    [publicKey |-> "pub", privateKey |-> "priv", ignoreMissingConfig |-> TRUE],
    [publicKey |-> "pub", ignoreMissingConfig |-> FALSE],
    [publicKey |-> "", privateKey |-> "priv", ignoreMissingConfig |-> TRUE],
    [publicKey |-> "pub", privateKey |-> "priv", apiUrl |-> <<>>,
     ignoreMissingConfig |-> TRUE] }

\* this.options.<k>, undefined when the key is not there
HasOption(o, k) == k \in DOMAIN o

\* { apiUrl: "https://api.flipflag.dev", ...opts }
constructor(opts) ==
  [k \in DOMAIN opts \cup {"apiUrl"} |->
     IF k \in DOMAIN opts THEN opts[k] ELSE DefaultApiUrl]

\* truthiness of the options the code tests
publicKeySet(o)          == HasOption(o, "publicKey") /\ o.publicKey # ""
privateKeySet(o)         == HasOption(o, "privateKey") /\ o.privateKey # ""
apiUrlSet(o)             == HasOption(o, "apiUrl") /\ o.apiUrl # <<>>
ignoreMissingConfigOn(o) == HasOption(o, "ignoreMissingConfig") /\ o.ignoreMissingConfig

\* String.replace(/\/+$/, ""): drop the trailing slashes
RECURSIVE StripTrailingSlashes(_)
StripTrailingSlashes(s) ==
  IF s # <<>> /\ s[Len(s)] = "/"
  THEN StripTrailingSlashes(SubSeq(s, 1, Len(s) - 1))
  ELSE s

\* getBaseUrl(): [ok |-> FALSE] stands for the thrown "Base API URL is not configured"
getBaseUrl(o) ==
  IF apiUrlSet(o)
  THEN [ok |-> TRUE, url |-> StripTrailingSlashes(o.apiUrl)]
  ELSE [ok |-> FALSE, url |-> <<>>]

\* ---------------------------------------------------------- flag payloads
Flag(b) == [enabled |-> b]

\* the JSON documents the flag endpoint (or an error page) can carry
FlagMaps ==
  { EmptyMap,
    [n \in {"a", "b"} |-> Flag(n = "a")] }

\* a response body: parse = FALSE is a body response.json() rejects on
NoBody == [parse |-> FALSE, json |-> EmptyMap]
Bodies == { [parse |-> TRUE, json |-> m] : m \in FlagMaps } \cup {NoBody}

\* what the awaited fetch() settles to: a rejection (net = FALSE) or a
\* Response; its body is read when response.json() settles
Responses ==
  { [net |-> TRUE, ok |-> k] : k \in BOOLEAN } \cup { [net |-> FALSE, ok |-> FALSE] }

\* ------------------------------------------------------------------ state
VARIABLES options, inited, interval, featuresTimes, featuresFlags,
          featuresUsage, timers, inits, polls, now, last, destroyed, reinit

vars == <<options, inited, interval, featuresTimes, featuresFlags,
          featuresUsage, timers, inits, polls, now, last, destroyed, reinit>>

\* requests handed to fetch()
FlagsRequest(base, key) == [kind |-> "flags", base |-> base, publicKey |-> key]
DeclareRequest(base, name, key, opt) ==
  [kind |-> "declare", base |-> base, featureName |-> name,
   privateKey |-> key, times |-> opt.times]
UsageRequest(base, key, usages) ==
  [kind |-> "usage", base |-> base, publicKey |-> key, usages |-> usages]

\* the history record; body is the response body a step has read
Last(op, id, name, input, result, error, sent) ==
  [op |-> op, id |-> id, name |-> name, input |-> input, result |-> result,
   error |-> error, sent |-> sent, body |-> NoBody]

\* the history record of a step in which response.json() has settled
Received(l, body) == [l EXCEPT !.body = body]

\* an init() call or a tick's getFeaturesFlags() call: the await it is
\* suspended at and response.ok of the Response it holds
Call(pc, ok) == [pc |-> pc, ok |-> ok]
Idle == Call("idle", FALSE)

\* ----------------------------------------------------------- constructor
Init ==
  /\ options \in { constructor(o) : o \in IManagerOptions }
  /\ inited = FALSE
  /\ interval = 0
  /\ featuresTimes = <<>>
  /\ featuresFlags = EmptyMap
  /\ featuresUsage = <<>>
  /\ timers = {}
  /\ inits = [i \in 1..MaxInit |-> Idle]
  /\ polls = <<>>
  /\ now = 0
  /\ last = Last("new", 0, "", "", "", "", <<>>)
  /\ destroyed = FALSE
  /\ reinit = {}

\* ------------------------------------------------------------- isEnabled
getLocalFeatureFlag(flags, featureName) ==
  IF featureName \in DOMAIN flags THEN {flags[featureName]} ELSE {}

\* this.options.<k> for a key that may be missing
optionValue(o, k) == IF HasOption(o, k) THEN o[k] ELSE "undefined"

\* createFeature() without its private-key gate
createFeatureUngated(o, featureName, opt) ==
  IF ~getBaseUrl(o).ok THEN <<>>
  ELSE << DeclareRequest(getBaseUrl(o).url, featureName,
                         optionValue(o, "privateKey"), opt) >>

\* createFeature(): the requests it hands to fetch (none when the private key
\* is missing, none when getBaseUrl throws inside the async function)
createFeature(o, featureName, opt) ==
  IF ~privateKeySet(o) THEN <<>>
  ELSE IF ~getBaseUrl(o).ok THEN <<>>
  ELSE << DeclareRequest(getBaseUrl(o).url, featureName, o.privateKey, opt) >>

\* upsertFeaturesUsage() that pushes without looking for an existing record
upsertFeaturesUsageAppend(usage, featureName, date) ==
  Append(usage, [featureName |-> featureName, usedAt |-> date])

\* upsertFeaturesUsage() that looks for the name in the newest record only
upsertFeaturesUsageNewest(usage, featureName, date) ==
  IF usage # <<>> /\ usage[Len(usage)].featureName = featureName
  THEN [usage EXCEPT ![Len(usage)].usedAt = date]
  ELSE Append(usage, [featureName |-> featureName, usedAt |-> date])

\* upsertFeaturesUsage(): the usage list afterwards
upsertFeaturesUsage(usage, featureName, date) ==
  IF \E i \in 1..Len(usage) : usage[i].featureName = featureName
  THEN LET i == CHOOSE j \in 1..Len(usage) :
                  /\ usage[j].featureName = featureName
                  /\ \A k \in 1..(j - 1) : usage[k].featureName # featureName
       IN [usage EXCEPT ![i].usedAt = date]
  ELSE Append(usage, [featureName |-> featureName, usedAt |-> date])

BoolStr(b) == IF b THEN "true" ELSE "false"

\* what isEnabled(featureName) returns
isEnabledResult(flags, featureName) ==
  LET feature == getLocalFeatureFlag(flags, featureName) IN
  IF feature = {} THEN FALSE ELSE (CHOOSE f \in feature : TRUE).enabled

\* isEnabled() that records the usage before it looks the flag up
isEnabledUpsertFirst(featureName) ==
  /\ featuresUsage' = upsertFeaturesUsage(featuresUsage, featureName, now')
  /\ last' = Last("isEnabled", 0, featureName,
                  IF getLocalFeatureFlag(featuresFlags, featureName) = {}
                  THEN "miss" ELSE "hit",
                  BoolStr(isEnabledResult(featuresFlags, featureName)), "",
                  IF getLocalFeatureFlag(featuresFlags, featureName) = {}
                  THEN createFeature(options, featureName, [times |-> <<>>])
                  ELSE <<>>)

isEnabled(featureName) ==
  LET feature == getLocalFeatureFlag(featuresFlags, featureName) IN
  IF feature = {}
  THEN /\ last' = Last("isEnabled", 0, featureName, "miss",
                       BoolStr(isEnabledResult(featuresFlags, featureName)), "",
                       createFeature(options, featureName, [times |-> <<>>]))
       /\ UNCHANGED featuresUsage
  ELSE /\ featuresUsage' = upsertFeaturesUsage(featuresUsage, featureName, now')
       /\ last' = Last("isEnabled", 0, featureName, "hit",
                       BoolStr(isEnabledResult(featuresFlags, featureName)), "", <<>>)

\* the application calls isEnabled; the clock is read on a cache hit, and
\* date is what it shows then
IsEnabled ==
  \E featureName \in Names, date \in now..MaxNow :
    /\ now' = IF getLocalFeatureFlag(featuresFlags, featureName) = {} THEN now ELSE date
    /\ isEnabled(featureName)
    /\ UNCHANGED <<options, inited, interval, featuresTimes, featuresFlags,
                   timers, inits, polls, destroyed, reinit>>

\* ------------------------------------------------------------ config file
\* Date.parse: the strings it turns into a number; every other one gives NaN
ValidDates == {"2025-01-01T10:00:00.000Z", "2025-02-01T00:00:00.000Z"}
DateParseIsNaN(str) == str \notin ValidDates

Undefined == "undefined"
Null      == "null"

YamlTime(started, finished) == [started |-> started, finished |-> finished]
\* one key of the YAML root: a feature config with or without times, or a scalar
YamlEntry(key, hasTimes, times, scalar) ==
  [key |-> key, hasTimes |-> hasTimes, times |-> times, scalar |-> scalar]

DocGood ==
  << YamlEntry("contributor", FALSE, <<>>, "dev@example.com"),
     YamlEntry("a", TRUE,
       << YamlTime("2025-01-01T10:00:00.000Z", "2025-02-01T00:00:00.000Z"),
          YamlTime("2025-02-01T00:00:00.000Z", Null) >>, "") >>
DocBadStarted ==
  << DocGood[1], DocGood[2],
     YamlEntry("b", TRUE, << YamlTime("NOT_A_DATE", Null) >>, "") >>
DocBadFinished ==
  << YamlEntry("b", TRUE, << YamlTime("2025-01-01T10:00:00.000Z", "NOPE") >>, "") >>

Docs == {DocGood, DocBadStarted, DocBadFinished}

\* what fs.readFile settles to and what yaml.load makes of the text
File(read, yaml, doc) == [read |-> read, yaml |-> yaml, doc |-> doc]
Files ==
  { File("ENOENT", "", <<>>), File("EACCES", "", <<>>),
    File("ok", "error", <<>>), File("ok", "array", <<>>), File("ok", "null", <<>>) }
    \cup { File("ok", "object", d) : d \in Docs }

\* doc.contributor
contributor(doc) ==
  IF \E i \in 1..Len(doc) : doc[i].key = "contributor"
  THEN doc[CHOOSE i \in 1..Len(doc) : doc[i].key = "contributor"].scalar
  ELSE Undefined

\* (cfg?.times ?? []).map(...)
mapTimes(doc, cfg) ==
  IF cfg.hasTimes
  THEN [j \in 1..Len(cfg.times) |->
          [email |-> contributor(doc),
           start |-> cfg.times[j].started,
           end   |-> IF cfg.times[j].finished = Undefined
                     THEN Null ELSE cfg.times[j].finished]]
  ELSE <<>>

\* the first check of the loop over times that throws, "" when none does
RECURSIVE validateTimes(_, _)
validateTimes(times, j) ==
  IF j > Len(times) THEN ""
  ELSE IF DateParseIsNaN(times[j].start) THEN "invalid started date"
  ELSE IF times[j].end # Null /\ DateParseIsNaN(times[j].end)
       THEN "invalid finished date"
  ELSE validateTimes(times, j + 1)

\* this.featuresTimes[featureName] = { times }
putFeatureTimes(ft, featureName, times) ==
  IF \E i \in 1..Len(ft) : ft[i].featureName = featureName
  THEN [i \in 1..Len(ft) |->
          IF ft[i].featureName = featureName
          THEN [featureName |-> featureName, times |-> times] ELSE ft[i]]
  ELSE Append(ft, [featureName |-> featureName, times |-> times])

Loaded(error, name, ft) == [error |-> error, name |-> name, featuresTimes |-> ft]

\* the loop over Object.entries(doc), from entry i on
RECURSIVE loadEntries(_, _, _)
loadEntries(doc, i, ft) ==
  IF i > Len(doc) THEN Loaded("", "", ft)
  ELSE LET times == mapTimes(doc, doc[i])
           bad   == validateTimes(times, 1)
       IN IF bad # "" THEN Loaded(bad, doc[i].key, ft)
          ELSE loadEntries(doc, i + 1, putFeatureTimes(ft, doc[i].key, times))

\* loadConfigFromYaml() that does not look at the error code
loadConfigFromYamlAnyCode(o, file, ft) ==
  IF file.read # "ok"
  THEN IF ignoreMissingConfigOn(o)
       THEN Loaded("", "", ft)
       ELSE Loaded("cannot read config", "", ft)
  ELSE IF file.yaml = "error" THEN Loaded("invalid YAML", "", ft)
  ELSE IF file.yaml # "object" THEN Loaded("YAML root must be an object", "", ft)
  ELSE loadEntries(file.doc, 1, ft)

\* loadConfigFromYaml() from the point where readFile has settled:
\* error = "return" is the early return on a missing file
loadConfigFromYaml(o, file, ft) ==
  IF file.read # "ok"
  THEN IF file.read = "ENOENT" /\ ignoreMissingConfigOn(o)
       THEN Loaded("", "", ft)
       ELSE Loaded("cannot read config", "", ft)
  ELSE IF file.yaml = "error" THEN Loaded("invalid YAML", "", ft)
  ELSE IF file.yaml # "object" THEN Loaded("YAML root must be an object", "", ft)
  ELSE loadEntries(file.doc, 1, ft)

\* ------------------------------------------------------- remote operations
\* syncFeaturesTimes(): the requests of one declare pass, in issue order
RECURSIVE declareEntries(_, _, _)
declareEntries(o, ft, i) ==
  IF i > Len(ft) THEN <<>>
  ELSE createFeature(o, ft[i].featureName, [times |-> ft[i].times])
         \o declareEntries(o, ft, i + 1)

syncFeaturesTimes(o, ft) ==
  IF ~privateKeySet(o) THEN <<>> ELSE declareEntries(o, ft, 1)

\* syncFeaturesUsage(): throws without a public key or a base URL
syncFeaturesUsage(o, usage) ==
  IF ~publicKeySet(o) THEN <<>>
  ELSE IF ~getBaseUrl(o).ok THEN <<>>
  ELSE << UsageRequest(getBaseUrl(o).url, o.publicKey, usage) >>

\* getFeaturesFlags() without its public-key guard
getFeaturesFlagsStartUnguarded(o) ==
  IF ~getBaseUrl(o).ok THEN [to |-> "caught", sent |-> <<>>]
  ELSE [to |-> "fetch",
        sent |-> << FlagsRequest(getBaseUrl(o).url, optionValue(o, "publicKey")) >>]

\* getFeaturesFlags() up to its first await:
\*   "throw"  the public key is missing, the call rejects
\*   "caught" getBaseUrl threw inside the try, the call resolves
\*   "fetch"  the request is out and the call is suspended
getFeaturesFlagsStart(o) ==
  IF ~publicKeySet(o) THEN [to |-> "throw", sent |-> <<>>]
  ELSE IF ~getBaseUrl(o).ok THEN [to |-> "caught", sent |-> <<>>]
  ELSE [to |-> "fetch", sent |-> << FlagsRequest(getBaseUrl(o).url, o.publicKey) >>]

\* getFeaturesFlags() when fetch settles: the next await, or "done" when the
\* rejection was caught
getFeaturesFlagsOnFetch(response, isInited) ==
  IF ~response.net THEN Call("done", FALSE)
  ELSE IF ~response.ok /\ ~isInited THEN Call("text", FALSE)
  ELSE Call("json", response.ok)

\* getFeaturesFlags() that merges the response into the cache
getFeaturesFlagsOnJsonMerge(body, flags) ==
  IF body.parse
  THEN [n \in DOMAIN flags \cup DOMAIN body.json |->
          IF n \in DOMAIN body.json THEN body.json[n] ELSE flags[n]]
  ELSE flags

\* getFeaturesFlags() when response.json() settles: the cache afterwards
getFeaturesFlagsOnJson(body, flags) ==
  IF body.parse THEN body.json ELSE flags

\* how a flag fetch that has come to its end failed, "" when it did not
fetchError(call, body) ==
  IF call.pc = "done" THEN "network"
  ELSE IF call.pc = "text" THEN "status"
  ELSE IF ~call.ok THEN (IF body.parse THEN "status" ELSE "status, parse")
  ELSE IF ~body.parse THEN "parse"
  ELSE ""

\* ------------------------------------------------------------------ init
\* the input a settled fetch stands for in the history
responseInput(response) ==
  IF ~response.net THEN "network error"
  ELSE IF response.ok THEN "ok" ELSE "not ok"

\* init() after getFeaturesFlags() has resolved: the declare pass,
\* setInterval and inited = true.  The timer of call i is timer i.
initFinish(i, op, input, error, ft, body) ==
  /\ timers' = timers \cup {i}
  /\ interval' = i
  /\ inited' = TRUE
  /\ inits' = [inits EXCEPT ![i] = Call("done", FALSE)]
  /\ last' = Received(Last(op, i, "", input, "resolved", error,
                            syncFeaturesTimes(options, ft)), body)

\* init() rejects: nothing after the failing await runs
initReject(i, op, name, input, error) ==
  /\ inits' = [inits EXCEPT ![i] = Call("done", FALSE)]
  /\ last' = Last(op, i, name, input, "rejected", error, <<>>)
  /\ UNCHANGED <<timers, interval, inited>>

\* the calls of the history reinit that are still in flight once call i has
\* taken its step
Settled(i, calls, after) == IF after[i].pc = "done" THEN calls \ {i} ELSE calls

\* init() is called: it runs up to the await of fs.readFile
InitCall ==
  \E i \in 1..MaxInit :
    /\ inits[i].pc = "idle"
    /\ \A j \in 1..(i - 1) : inits[j].pc # "idle"
    /\ inits' = [inits EXCEPT ![i] = Call("readFile", FALSE)]
    /\ last' = Last("init", i, "", "", "pending", "", <<>>)
    /\ destroyed' = FALSE
    /\ reinit' = IF destroyed THEN reinit \cup {i} ELSE reinit
    /\ UNCHANGED <<options, inited, interval, featuresTimes, featuresFlags,
                   featuresUsage, timers, polls, now>>

\* readFile settles: the rest of loadConfigFromYaml(), then getFeaturesFlags()
\* up to the await of fetch
InitReadFile ==
  \E i \in 1..MaxInit, file \in Files :
    LET loaded == loadConfigFromYaml(options, file, featuresTimes)
        start  == getFeaturesFlagsStart(options)
        input  == IF file.read = "ok" THEN file.yaml ELSE file.read
    IN
    /\ inits[i].pc = "readFile"
    /\ featuresTimes' = loaded.featuresTimes
    /\ IF loaded.error # ""
       THEN initReject(i, "init.readFile", loaded.name, input, loaded.error)
       ELSE IF start.to = "throw"
       THEN initReject(i, "init.readFile", "", input, "Public key is missing")
       ELSE IF start.to = "caught"
       THEN initFinish(i, "init.readFile", input, "", loaded.featuresTimes, NoBody)
       ELSE /\ inits' = [inits EXCEPT ![i] = Call("fetch", FALSE)]
            /\ last' = Last("init.readFile", i, "", input, "pending", "", start.sent)
            /\ UNCHANGED <<timers, interval, inited>>
    /\ reinit' = Settled(i, reinit, inits')
    /\ UNCHANGED <<options, featuresFlags, featuresUsage, polls, now, destroyed>>

\* the fetch of init's getFeaturesFlags() settles
InitFetch ==
  \E i \in 1..MaxInit, response \in Responses :
    LET call == getFeaturesFlagsOnFetch(response, inited) IN
    /\ inits[i].pc = "fetch"
    /\ IF call.pc = "done"
       THEN initFinish(i, "init.fetch", responseInput(response),
                       fetchError(call, NoBody), featuresTimes, NoBody)
       ELSE /\ inits' = [inits EXCEPT ![i] = call]
            /\ last' = Last("init.fetch", i, "", responseInput(response),
                            "pending", "", <<>>)
            /\ UNCHANGED <<timers, interval, inited>>
    /\ reinit' = Settled(i, reinit, inits')
    /\ UNCHANGED <<options, featuresTimes, featuresFlags, featuresUsage, polls,
                   now, destroyed>>

\* response.text() settles: the throw of "Failed to get features" is caught
\* by the catch of getFeaturesFlags(), which resolves
InitText ==
  \E i \in 1..MaxInit :
    /\ inits[i].pc = "text"
    /\ initFinish(i, "init.text", "not ok", fetchError(inits[i], NoBody),
                  featuresTimes, NoBody)
    /\ reinit' = Settled(i, reinit, inits')
    /\ UNCHANGED <<options, featuresTimes, featuresFlags, featuresUsage, polls,
                   now, destroyed>>

\* response.json() settles
InitJson ==
  \E i \in 1..MaxInit, body \in Bodies :
    /\ inits[i].pc = "json"
    /\ featuresFlags' = getFeaturesFlagsOnJson(body, featuresFlags)
    /\ initFinish(i, "init.json", IF inits[i].ok THEN "ok" ELSE "not ok",
                  fetchError(inits[i], body), featuresTimes, body)
    /\ reinit' = Settled(i, reinit, inits')
    /\ UNCHANGED <<options, featuresTimes, featuresUsage, polls, now, destroyed>>

\* ------------------------------------------------------------ timer tick
RemoveAt(seq, k) == SubSeq(seq, 1, k - 1) \o SubSeq(seq, k + 1, Len(seq))

\* the setInterval callback of an active timer
Tick ==
  \E t \in timers :
    LET start == getFeaturesFlagsStart(options) IN
    /\ Len(polls) < MaxPolls
    /\ polls' = IF start.to = "fetch"
                THEN Append(polls, Call("fetch", FALSE)) ELSE polls
    /\ last' = Last("tick", t, "", "", "", "",
                    start.sent \o syncFeaturesTimes(options, featuresTimes)
                               \o syncFeaturesUsage(options, featuresUsage))
    /\ UNCHANGED <<options, inited, interval, featuresTimes, featuresFlags,
                   featuresUsage, timers, inits, now, destroyed, reinit>>

\* the fetch of a tick's getFeaturesFlags() settles
PollFetch ==
  \E k \in 1..Len(polls), response \in Responses :
    LET call == getFeaturesFlagsOnFetch(response, inited) IN
    /\ polls[k].pc = "fetch"
    /\ polls' = IF call.pc = "done" THEN RemoveAt(polls, k)
                ELSE [polls EXCEPT ![k] = call]
    /\ last' = Last("poll.fetch", k, "", responseInput(response),
                    IF call.pc = "done" THEN "done" ELSE "pending",
                    IF call.pc = "done" THEN fetchError(call, NoBody) ELSE "", <<>>)
    /\ UNCHANGED <<options, inited, interval, featuresTimes, featuresFlags,
                   featuresUsage, timers, inits, now, destroyed, reinit>>

PollText ==
  \E k \in 1..Len(polls) :
    /\ polls[k].pc = "text"
    /\ polls' = RemoveAt(polls, k)
    /\ last' = Last("poll.text", k, "", "not ok", "done", fetchError(polls[k], NoBody), <<>>)
    /\ UNCHANGED <<options, inited, interval, featuresTimes, featuresFlags,
                   featuresUsage, timers, inits, now, destroyed, reinit>>

PollJson ==
  \E k \in 1..Len(polls), body \in Bodies :
    /\ polls[k].pc = "json"
    /\ featuresFlags' = getFeaturesFlagsOnJson(body, featuresFlags)
    /\ polls' = RemoveAt(polls, k)
    /\ last' = Received(Last("poll.json", k, "", IF polls[k].ok THEN "ok" ELSE "not ok",
                             "done", fetchError(polls[k], body), <<>>), body)
    /\ UNCHANGED <<options, inited, interval, featuresTimes, featuresUsage,
                   timers, inits, now, destroyed, reinit>>

\* --------------------------------------------------------------- destroy
\* the fields of the manager and the runtime's active timers
Manager ==
  [inited |-> inited, interval |-> interval, timers |-> timers,
   featuresTimes |-> featuresTimes, featuresFlags |-> featuresFlags,
   featuresUsage |-> featuresUsage]

\* destroy() that forgets the usage list
destroyKeepsUsage(m) ==
  [m EXCEPT !.inited = FALSE,
            !.timers = IF m.interval # 0 THEN m.timers \ {m.interval} ELSE m.timers,
            !.featuresTimes = <<>>,
            !.featuresFlags = EmptyMap]

\* destroy(): this.interval keeps the handle it has cleared
destroy(m) ==
  [m EXCEPT !.inited = FALSE,
            !.timers = IF m.interval # 0 THEN m.timers \ {m.interval} ELSE m.timers,
            !.featuresTimes = <<>>,
            !.featuresFlags = EmptyMap,
            !.featuresUsage = <<>>]

Destroy ==
  LET m == destroy(Manager) IN
  /\ inited' = m.inited
  /\ interval' = m.interval
  /\ timers' = m.timers
  /\ featuresTimes' = m.featuresTimes
  /\ featuresFlags' = m.featuresFlags
  /\ featuresUsage' = m.featuresUsage
  /\ last' = Last("destroy", 0, "", "", "", "", <<>>)
  /\ destroyed' = TRUE
  /\ UNCHANGED <<options, inits, polls, now, reinit>>

Next ==
  \/ InitCall
  \/ InitReadFile
  \/ InitFetch
  \/ InitText
  \/ InitJson
  \/ Tick
  \/ PollFetch
  \/ PollText
  \/ PollJson
  \/ IsEnabled
  \/ Destroy

Spec == Init /\ [][Next]_vars
\* ================================================================ claims
Cached(name) == name \in DOMAIN featuresFlags

\* the indexes of the usage records of a feature
UsageIndexes(usage, name) == { i \in 1..Len(usage) : usage[i].featureName = name }

DeclaresIn(sent) == { i \in 1..Len(sent) : sent[i].kind = "declare" }

\* the three caches are empty and initialized is false
Cleared ==
  /\ featuresFlags = EmptyMap
  /\ featuresTimes = <<>>
  /\ featuresUsage = <<>>
  /\ inited = FALSE

\* C1: if the initial flag fetch of init() gets a non-success response, init()
\* rejects, initialized remains false and no polling timer is started.
\* (init.text is the step that follows a non-success response received while
\* the manager is not initialized.)
C1_InitRejectsOnNonSuccess ==
  last.op = "init.text" =>
    /\ last.result = "rejected"
    /\ inited = FALSE
    /\ last.id \notin timers

\* C2: for a feature name present in the flag cache, isEnabled(name) returns
\* the cached enabled value, upserts the usage record of that name (one record
\* for the name, stamped with the time of the call, every other record as it
\* was) and issues no request.
C2_CacheHit ==
  [][ (last'.op = "isEnabled" /\ Cached(last'.name)) =>
        LET name == last'.name IN
        /\ last'.result = BoolStr(featuresFlags[name].enabled)
        /\ last'.sent = <<>>
        /\ polls' = polls
        /\ Cardinality(UsageIndexes(featuresUsage', name)) = 1
        /\ \A i \in UsageIndexes(featuresUsage', name) : featuresUsage'[i].usedAt = now'
        /\ Len(featuresUsage') =
             Len(featuresUsage) + (IF UsageIndexes(featuresUsage, name) = {} THEN 1 ELSE 0)
        /\ \A i \in 1..Len(featuresUsage) :
             featuresUsage[i].featureName # name => featuresUsage'[i] = featuresUsage[i]
    ]_vars

C2_Witness ==
  /\ last.op = "isEnabled"
  /\ Cached(last.name)
  /\ last.result = "true"
  /\ Len(featuresUsage) = 2
  /\ now = MaxNow

\* what C3 says of an isEnabled call on a cache miss
CacheMissEffect ==
  /\ last'.result = "false"
  /\ Len(last'.sent) = 1
  /\ last'.sent[1].kind = "declare"
  /\ last'.sent[1].featureName = last'.name
  /\ last'.sent[1].times = <<>>
  /\ featuresUsage' = featuresUsage
  /\ featuresFlags' = featuresFlags
  /\ featuresTimes' = featuresTimes

\* C3 as written: with a private key, isEnabled(name) for a name absent from
\* the cache returns false, issues exactly one declare request with
\* featureName = name and times = [], records no usage and leaves the flag
\* cache and the declaration map unchanged.
C3_CacheMissDeclares ==
  [][ (privateKeySet(options) /\ last'.op = "isEnabled" /\ ~Cached(last'.name)) =>
        CacheMissEffect ]_vars

\* C3 amended: the same, when a base URL is configured as well.
C3_CacheMissDeclaresWithBaseUrl ==
  [][ (privateKeySet(options) /\ apiUrlSet(options)
         /\ last'.op = "isEnabled" /\ ~Cached(last'.name)) =>
        CacheMissEffect ]_vars

C3_Witness ==
  /\ privateKeySet(options)
  /\ apiUrlSet(options)
  /\ last.op = "isEnabled"
  /\ last.name = "b"
  /\ last.input = "miss"
  /\ Len(last.sent) = 1
  /\ inited
  /\ featuresTimes # <<>>

\* C4: without a private key no declare request is issued in any step (the
\* startup pass, a tick's pass, isEnabled), and isEnabled on a cache miss
\* returns false and issues no request at all.
C4_NoDeclareWithoutPrivateKey ==
  ~privateKeySet(options) =>
    /\ DeclaresIn(last.sent) = {}
    /\ (last.op = "isEnabled" /\ ~Cached(last.name)) =>
         (last.result = "false" /\ last.sent = <<>>)

C4_Witness ==
  /\ ~privateKeySet(options)
  /\ last.op = "tick"
  /\ featuresTimes # <<>>
  /\ Len(last.sent) = 2

\* C5: once init() has succeeded, a polling flag fetch that fails (network
\* error, non-success response, unparseable body) leaves the flag cache as it
\* was.
C5_FailedPollKeepsCache ==
  [][ (inited /\ last'.op \in {"poll.fetch", "poll.text", "poll.json"}
         /\ last'.result = "done" /\ last'.error # "") =>
        featuresFlags' = featuresFlags ]_vars

C7_NoTickAfterDestroy ==
  (inited = FALSE /\ interval # 0) => last.op # "tick"

\* C8: once destroy() has completed and init() is not called again, the
\* caches stay empty, initialized stays false and no timer is started,
\* whichever operation in flight finishes afterwards.
C8_DestroyedStaysCleared ==
  [][ destroyed' => (Cleared' /\ timers' \subseteq timers) ]_vars

\* C9: readFile fails with "file not found": with ignoreMissingConfig true the
\* load adds no declaration and init() goes on to the flag fetch; with
\* ignoreMissingConfig false init() rejects with "cannot read config" and
\* issues no request.  Any other read failure rejects whatever the option is.
C9_MissingConfig ==
  [][ (last'.op = "init.readFile" /\ last'.input \in {"ENOENT", "EACCES"}) =>
        IF last'.input = "ENOENT" /\ ignoreMissingConfigOn(options)
        THEN /\ featuresTimes' = featuresTimes
             /\ last'.error # "cannot read config"
             /\ (publicKeySet(options) /\ apiUrlSet(options)) =>
                  /\ last'.result = "pending"
                  /\ inits'[last'.id].pc = "fetch"
                  /\ Len(last'.sent) = 1
                  /\ last'.sent[1].kind = "flags"
        ELSE IF last'.input = "ENOENT" /\ ~HasOption(options, "ignoreMissingConfig")
        THEN TRUE
        ELSE /\ last'.result = "rejected"
             /\ last'.error = "cannot read config"
             /\ last'.sent = <<>>
             /\ UNCHANGED <<featuresTimes, featuresFlags, inited, timers, interval>>
    ]_vars

C9_Witness ==
  /\ last.op = "init.readFile"
  /\ last.input = "ENOENT"
  /\ ignoreMissingConfigOn(options)
  /\ last.result = "pending"
  /\ Len(last.sent) = 1

\* C10: constructed without an ignoreMissingConfig option, init() does not
\* reject when the config file does not exist.
C10_IgnoreMissingConfigDefaultsToTrue ==
  (~HasOption(options, "ignoreMissingConfig")
     /\ last.op = "init.readFile" /\ last.input = "ENOENT") =>
    last.result # "rejected"

\* the errors loadConfigFromYaml() throws for the content of a file it has read
ConfigContentErrors ==
  {"invalid YAML", "YAML root must be an object",
   "invalid started date", "invalid finished date"}

\* C11: when the config file has an unparseable "started", a non-null
\* unparseable "finished", does not parse or is not a mapping, init() rejects,
\* issues no request, starts no timer, and the declaration map holds none of
\* the features of the file: the load leaves it as it was.
C11_ConfigLoadIsFailFast ==
  [][ (last'.op = "init.readFile" /\ last'.error \in ConfigContentErrors) =>
        /\ last'.result = "rejected"
        /\ last'.sent = <<>>
        /\ timers' = timers
        /\ inited' = inited
        /\ featuresTimes' = featuresTimes ]_vars

\* every error loadConfigFromYaml() throws
ConfigErrors == ConfigContentErrors \cup {"cannot read config"}

\* what C12 says of a manager without a public key, but for the error:
\* init() sends nothing and starts no timer, the manager never becomes
\* initialized, and no tick runs
NoPublicKeyEffect ==
  /\ timers = {}
  /\ inited = FALSE
  /\ polls = <<>>
  /\ last.op # "tick"
  /\ last.op # "isEnabled" => last.sent = <<>>
  /\ last.op = "init.readFile" => last.result = "rejected"

\* C12 as written: without a public key init() rejects with "Public key is
\* missing", issues no request and starts no timer, so no tick ever runs a
\* flag fetch or a usage flush.
C12_MissingPublicKeyRejects ==
  ~publicKeySet(options) =>
    /\ NoPublicKeyEffect
    /\ last.op = "init.readFile" => last.error = "Public key is missing"

\* C12 amended: the same, where the error is "Public key is missing" when the
\* config load has not failed, and the error of the config load when it has.
C12_MissingPublicKeyRejectsAfterConfig ==
  ~publicKeySet(options) =>
    /\ NoPublicKeyEffect
    /\ last.op = "init.readFile" =>
         /\ last.error \in ConfigErrors \cup {"Public key is missing"}
         /\ last.input = "ENOENT" =>
              last.error = IF ignoreMissingConfigOn(options)
                           THEN "Public key is missing" ELSE "cannot read config"
         /\ last.input \in {"error", "array", "null"} => last.error \in ConfigContentErrors
         /\ (last.input = "object" /\ last.name = "") =>
              last.error = "Public key is missing"

C12_Witness ==
  /\ ~publicKeySet(options)
  /\ last.op = "init.readFile"
  /\ last.error = "Public key is missing"
  /\ featuresTimes # <<>>
  /\ inits[2].pc = "done"

\* C13: when apiUrl is empty or undefined, init() rejects with the base-URL
\* configuration error, initialized stays false and no timer is started.
C13_MissingBaseUrlIsFatal ==
  ~apiUrlSet(options) =>
    /\ inited = FALSE
    /\ timers = {}
    /\ last.op = "init.readFile" => last.result = "rejected"

\* the indexes of the requests of one kind among the requests of a step
RequestsIn(sent, kind) == { i \in 1..Len(sent) : sent[i].kind = kind }

\* C14: while the manager is initialized, every timer tick issues a flag
\* fetch, a declare pass (one request per declaration when a private key is
\* configured) and a usage flush, whatever became of the operations of earlier
\* ticks, and none of the three operations fails to issue its request.
C14_EveryTickIssuesAll ==
  [][ (inited /\ last'.op = "tick") =>
        /\ Cardinality(RequestsIn(last'.sent, "flags")) = 1
        /\ Cardinality(RequestsIn(last'.sent, "usage")) = 1
        /\ privateKeySet(options) =>
             Cardinality(RequestsIn(last'.sent, "declare")) = Len(featuresTimes)
    ]_vars

\* the steps of an init() call
InitSteps == {"init.readFile", "init.fetch", "init.text", "init.json"}

\* C15: an init() call made after destroy() does not bring the manager back
\* to Running: none of its steps starts a timer, fills a cache or sets
\* initialized to true, and it does not resolve.
C15_DestroyedIsTerminal ==
  [][ (last'.op \in InitSteps /\ last'.id \in reinit) =>
        /\ timers' = timers
        /\ inited' = inited
        /\ featuresTimes' = featuresTimes
        /\ featuresFlags' = featuresFlags
        /\ last'.result # "resolved" ]_vars

\* C16: after a successful flag fetch (success response, parseable body) the
\* flag cache is exactly the mapping of the response: a name that was cached
\* and is not in the response is a cache miss afterwards.
C16_FetchReplacesCache ==
  [][ (last'.op \in {"init.json", "poll.json"} /\ last'.input = "ok"
         /\ last'.error = "") =>
        /\ featuresFlags' = last'.body.json
        /\ \A n \in Names :
             (Cached(n) /\ n \notin DOMAIN last'.body.json) =>
               getLocalFeatureFlag(featuresFlags', n) = {}
    ]_vars

C16_Witness ==
  /\ last.op = "poll.json"
  /\ last.input = "ok"
  /\ last.error = ""
  /\ last.body.json = EmptyMap
  /\ featuresUsage # <<>>

\* the usage records carried by the usage request of a step
UsagesOf(sent) ==
  LET at == RequestsIn(sent, "usage") IN
  IF at = {} THEN {}
  ELSE LET usages == sent[CHOOSE i \in at : TRUE].usages
       IN { usages[j] : j \in 1..Len(usages) }

\* C17: a usage record that a flush has carried is removed from the usage
\* list when the flush succeeds, so with no isEnabled call in between the
\* usage payload of the next tick does not carry it again.
\* (No step of the program runs when a usage request succeeds or fails, so
\* two ticks in a row are a flush, its outcome whatever it is, and the next
\* flush.)
C17_FlushedUsageIsNotResent ==
  [][ (last.op = "tick" /\ last'.op = "tick") =>
        UsagesOf(last.sent) \cap UsagesOf(last'.sent) = {} ]_vars

\* C18: the usage list never holds two records of one feature name, and a
\* cache-hit check of a name that has a record sets that record's usedAt in
\* place: the list keeps its length and its order of names.
C18_OneUsageRecordPerName ==
  [][ /\ \A name \in Names : Cardinality(UsageIndexes(featuresUsage', name)) <= 1
      /\ (last'.op = "isEnabled" /\ Cached(last'.name)
            /\ UsageIndexes(featuresUsage, last'.name) # {}) =>
           /\ Len(featuresUsage') = Len(featuresUsage)
           /\ \A i \in 1..Len(featuresUsage) :
                /\ featuresUsage'[i].featureName = featuresUsage[i].featureName
                /\ featuresUsage[i].featureName = last'.name =>
                     featuresUsage'[i].usedAt = now'
    ]_vars

\* the older record carries the later time: it was updated in place after the
\* other name was recorded
C18_Witness ==
  /\ last.op = "isEnabled"
  /\ last.input = "hit"
  /\ Len(featuresUsage) = 2
  /\ featuresUsage[1].featureName = last.name
  /\ featuresUsage[1].usedAt > featuresUsage[2].usedAt

\* the steps that run a declare pass: the end of init() and every tick
DeclarePass(l) ==
  \/ l.op = "tick"
  \/ l.op \in InitSteps /\ l.result = "resolved"

\* C19: with a private key, every declare pass (at the end of init() and on
\* every tick) issues exactly one declare request per entry of the
\* declaration map, in the order of the map, each with the name and the
\* unchanged times of its entry.
C19_DeclarePassSendsEveryEntry ==
  [][ (privateKeySet(options) /\ DeclarePass(last')) =>
        LET sent     == last'.sent
            declares == [k \in 1..Cardinality(RequestsIn(sent, "declare")) |->
                           sent[CHOOSE i \in RequestsIn(sent, "declare") :
                                  Cardinality({j \in RequestsIn(sent, "declare") : j < i})
                                    = k - 1]]
        IN /\ Len(declares) = Len(featuresTimes')
           /\ \A k \in 1..Len(declares) :
                /\ declares[k].featureName = featuresTimes'[k].featureName
                /\ declares[k].times = featuresTimes'[k].times
    ]_vars

\* C20: at most one timer started by the manager is active at any time, and
\* after destroy() none is.
C20_AtMostOneTimer ==
  /\ Cardinality(timers) <= 1
  /\ last.op = "destroy" => timers = {}

\* a tick's flag fetch has ended in this step with a success response and a
\* parseable body
PollApplied(l) == l.op = "poll.json" /\ l.input = "ok" /\ l.error = ""

\* C21: the successful responses of overlapping tick fetches take effect in
\* issue order: when the response of a later-issued fetch has been applied,
\* the response of a fetch issued before it, arriving next, does not
\* overwrite the cache.
\* (polls is in issue order and last.id is the position of the call that
\* ended, so after the call at position last.id has gone the calls at lower
\* positions are the ones issued before it.)
C21_ResponsesApplyInIssueOrder ==
  [][ (PollApplied(last) /\ PollApplied(last') /\ last'.id < last.id) =>
        featuresFlags' = featuresFlags ]_vars
====
